---- MODULE Spec2Model ----
(***************************************************************************)
(* Radial Hartree potentials of numerical atomic orbitals                  *)
(* (pyscf/nao/m_ao_log_hartree.py): the three solvers ao_log_hartree_lap,  *)
(* ao_log_hartree_sbt, ao_log_hartree_lap_libnao and the dispatcher        *)
(* ao_log_hartree.                                                         *)
(*                                                                         *)
(* Conventions.  Python indices are 0-based, the sequences here 1-based:   *)
(* rr[0] of the code is rr[1] here, rr[-1] is rr[Len(rr)].  Numbers are    *)
(* exact: a real is c * pi^k * log(a1)*...*log(am) * s1*...*sn with c a    *)
(* reduced fraction, so that 4*pi, log(rr[1]/rr[0]) and the values of the  *)
(* spherical Bessel engine stay symbolic and no rounding is modelled.      *)
(* numpy arrays and Python lists are cells of a heap; an object is a       *)
(* record of the addresses of its attributes, so that copying, aliasing    *)
(* and in-place writes are what the code makes them.                       *)
(***************************************************************************)
EXTENDS Integers, Sequences, FiniteSets, TLC

----------------------------------------------------------------------------
(* Bounds of the checked instances *)

\* longest radial grid (rr has 2..MaxNr points)
MaxNr == 4
\* largest angular momentum of a multiplet
MaxJ == 1
\* longest method name handed to the dispatcher
MaxLen == 3
\* solver invocations on one input in SpecRepeat
MaxCalls == 2

\* sample shapes: the number of multiplets of each species
Shapes == {<<1>>, <<2>>, <<1, 1>>}
\* sample grid origins rr[0]; the grid is rr[0] * 2^i
Origins == {1, 3}
\* sample input cutoffs (of the first multiplet)
Cuts == {4}

----------------------------------------------------------------------------
(* Exact arithmetic *)

Abs(x) == IF x < 0 THEN -x ELSE x

Min(a, b) == IF a <= b THEN a ELSE b

Max(a, b) == IF a >= b THEN a ELSE b

RECURSIVE GCD(_, _)
GCD(a, b) == IF b = 0 THEN a ELSE GCD(b, a % b)

RECURSIVE Pow(_, _)
Pow(b, k) == IF k = 0 THEN 1 ELSE b * Pow(b, k - 1)

\* the fraction n/d (d > 0) in lowest terms
Rat(n, d) == LET g == GCD(Abs(n), d) IN <<n \div g, d \div g>>

RatInt(n) == <<n, 1>>

\* the product, with the common factors cancelled before multiplying
RatMul(a, b) ==
  LET g == GCD(Abs(a[1]), b[2])
      h == GCD(Abs(b[1]), a[2])
  IN Rat((a[1] \div g) * (b[1] \div h), (a[2] \div h) * (b[2] \div g))

\* the quotient by a positive fraction
RatDiv(a, b) == RatMul(a, <<b[2], b[1]>>)

RatAdd(a, b) ==
  LET l == (a[2] \div GCD(a[2], b[2])) * b[2]
  IN Rat(a[1] * (l \div a[2]) + b[1] * (l \div b[2]), l)

\* a real number c * pi^k * log(lg[1])... * sym[1]...
Real(c) == [q |-> c, pi |-> 0, lg |-> <<>>, sym |-> <<>>]

RealMul(a, b) ==
  [q |-> RatMul(a.q, b.q), pi |-> a.pi + b.pi, lg |-> a.lg \o b.lg, sym |-> a.sym \o b.sym]

RealScale(a, r) == [a EXCEPT !.q = RatMul(@, r)]

RealDivRat(a, r) == [a EXCEPT !.q = RatDiv(@, r)]

\* the sum of two reals of the same symbolic part
RealAdd(a, b) == [a EXCEPT !.q = RatAdd(@, b.q)]

\* np.log of a positive fraction
Log(r) == [q |-> RatInt(1), pi |-> 0, lg |-> <<r>>, sym |-> <<>>]

\* np.pi
Pi == [q |-> RatInt(1), pi |-> 1, lg |-> <<>>, sym |-> <<>>]

Range(s) == {s[i] : i \in DOMAIN s}

Last(s) == s[Len(s)]

----------------------------------------------------------------------------
(* The heap and the ao_log objects *)

VARIABLES heap, ao, in0, pc, ao_pot, sbt, dr, vff, ffrr3, sp, mu, ir, irp,
          results, retvals, calls, arg, raised

vars == <<heap, ao, in0, pc, ao_pot, sbt, dr, vff, ffrr3, sp, mu, ir, irp,
          results, retvals, calls, arg, raised>>

\* the attributes of an ao_log object that are lists of arrays
ListAddrs(o) == {o.sp_mu2j, o.psi_log, o.psi_log_rl, o.sp_mu2rcut}

\* every heap cell an object reaches
Reach(h, o) ==
  ListAddrs(o) \cup {o.rr, o.pp, o.sp2rcut} \cup UNION {Range(h[l]) : l \in ListAddrs(o)}

\* the arrays of one list attribute, by value
ListValue(h, l) == [i \in DOMAIN h[l] |-> h[h[l][i]]]

\* an object by value
DeepValue(h, o) ==
  [rr |-> h[o.rr], pp |-> h[o.pp], sp2rcut |-> h[o.sp2rcut],
   sp_mu2j |-> ListValue(h, o.sp_mu2j), psi_log |-> ListValue(h, o.psi_log),
   psi_log_rl |-> ListValue(h, o.psi_log_rl), sp_mu2rcut |-> ListValue(h, o.sp_mu2rcut),
   nr |-> o.nr, nspecies |-> o.nspecies, sp2nmult |-> o.sp2nmult, jmx |-> o.jmx]

\* copy.copy: a new object whose attributes are the same arrays and lists
ShallowCopy(h, o) == [heap |-> h, obj |-> o]

\* copy.deepcopy: every reachable cell is copied once to a fresh address
DeepCopy(h, o) ==
  LET R == Reach(h, o)
      New(a) == Len(h) + Cardinality({b \in R : b <= a})
      Old(k) == CHOOSE a \in R : Cardinality({b \in R : b <= a}) = k
      Cell(a) == IF a \in ListAddrs(o) THEN [i \in DOMAIN h[a] |-> New(h[a][i])] ELSE h[a]
  IN [heap |-> h \o [k \in 1..Cardinality(R) |-> Cell(Old(k))],
      obj |-> [o EXCEPT !.rr = New(@), !.pp = New(@), !.sp2rcut = New(@),
                        !.sp_mu2j = New(@), !.psi_log = New(@),
                        !.psi_log_rl = New(@), !.sp_mu2rcut = New(@)]]

----------------------------------------------------------------------------
(* Well-formed inputs *)

\* a logarithmic grid of n points from r0 with ratio 2
LogGrid(r0, n) == [i \in 1..n |-> r0 * Pow(2, i - 1)]

\* the rescaled form of a radial function: ff / rr^j
Rescaled(ff, rr, j) == [i \in DOMAIN ff |-> RealDivRat(ff[i], RatInt(Pow(rr[i], j)))]

\* the orbital set with grid rr, pp, angular momenta js[sp][mu], radial
\* functions fs[sp][mu] and cutoff rcut, laid out on an empty heap
MkAo(rr, pp, js, fs, rcut) ==
  LET ns == Len(js)
      A(s, k) == 7 + 4 * (s - 1) + k
      psi(s) == [m \in DOMAIN fs[s] |-> [i \in DOMAIN rr |-> Real(RatInt(fs[s][m][i]))]]
      cell(a) ==
        CASE a = 1 -> rr
          [] a = 2 -> pp
          [] a = 3 -> [s \in 1..ns |-> rcut + Len(js[s])]
          [] a = 4 -> [s \in 1..ns |-> A(s, 1)]
          [] a = 5 -> [s \in 1..ns |-> A(s, 2)]
          [] a = 6 -> [s \in 1..ns |-> A(s, 3)]
          [] a = 7 -> [s \in 1..ns |-> A(s, 4)]
          [] OTHER ->
             LET s == ((a - 8) \div 4) + 1
                 k == ((a - 8) % 4) + 1
             IN CASE k = 1 -> js[s]
                  [] k = 2 -> psi(s)
                  [] k = 3 -> [m \in DOMAIN js[s] |-> Rescaled(psi(s)[m], rr, js[s][m])]
                  [] OTHER -> [m \in DOMAIN js[s] |-> rcut + m]
  IN [heap |-> [a \in 1..(7 + 4 * ns) |-> cell(a)],
      obj |-> [rr |-> 1, pp |-> 2, sp2rcut |-> 3, sp_mu2j |-> 4, psi_log |-> 5,
               psi_log_rl |-> 6, sp_mu2rcut |-> 7, nr |-> Len(rr), nspecies |-> ns,
               sp2nmult |-> [s \in 1..ns |-> Len(js[s])],
               jmx |-> LET all == UNION {Range(js[s]) : s \in 1..ns}
                       IN CHOOSE j \in all : \A k \in all : k <= j]]

\* sample radial functions on n grid points: the constant function of the
\* end-to-end scenario, a ramp, and the unit impulse at every grid point (the
\* quadrature is linear in f, so the impulses probe every kernel entry)
Orbitals(n) ==
  {[i \in 1..n |-> 1], [i \in 1..n |-> i]}
    \cup {[i \in 1..n |-> IF i = k THEN 1 ELSE 0] : k \in 1..n}

\* all assignments of a value of V to every multiplet of shape sh
PerMult(sh, V) ==
  {x \in [1..Len(sh) -> UNION {[1..k -> V] : k \in Range(sh)}] :
     \A s \in 1..Len(sh) : Len(x[s]) = sh[s]}

\* the well-formed orbital sets of the checked instances: per-multiplet
\* cutoffs rcut + mu and per-species cutoff their maximum, as ao_log keeps them
InputsOf(n, sh, R) ==
  {MkAo(LogGrid(r0, n), LogGrid(3, n), js, fs, rcut) :
     r0 \in R, js \in PerMult(sh, 0..MaxJ), fs \in PerMult(sh, Orbitals(n)),
     rcut \in Cuts}

Inputs == UNION {InputsOf(n, sh, Origins) : n \in 2..MaxNr, sh \in Shapes}

----------------------------------------------------------------------------
(* Reading the objects *)

\* ao.rr
Rr == heap[ao.rr]

\* ao.psi_log[sp][mu,:] and ao.sp_mu2j[sp][mu]
Ff(h, s, m) == h[h[ao.psi_log][s]][m]

Am(h, s, m) == h[h[ao.sp_mu2j][s]][m]

\* the species enumerate(ao.psi_log) runs over, and the multiplets
\* zip(mu2ff, ao.sp_mu2j[sp]) runs over
NSpecies(h) == Len(h[ao.psi_log])

NMult(h, s) == Min(Len(h[h[ao.psi_log][s]]), Len(h[h[ao.sp_mu2j][s]]))

NoCalls == [lap |-> 0, sbt |-> 0, libnao |-> 0]

\* the locals of a solver that is not running
Idle ==
  /\ ao_pot = <<>> /\ sbt = <<>> /\ dr = <<>> /\ vff = <<>> /\ ffrr3 = <<>>
  /\ sp = 0 /\ mu = 0 /\ ir = 0 /\ irp = 0

Idle1 ==
  /\ ao_pot' = <<>> /\ sbt' = <<>> /\ dr' = <<>> /\ vff' = <<>> /\ ffrr3' = <<>>
  /\ sp' = 0 /\ mu' = 0 /\ ir' = 0 /\ irp' = 0

\* the state before the first call on input x
Start(x) ==
  /\ heap = x.heap /\ ao = x.obj /\ in0 = DeepValue(x.heap, x.obj)
  /\ Idle /\ results = <<>> /\ retvals = <<>> /\ calls = NoCalls /\ raised = FALSE

Init == /\ \E x \in Inputs : Start(x)
        /\ pc = "idle" /\ arg = <<>>

\* the caller invokes one of the three solvers on ao
Invoke ==
  /\ pc = "idle"
  /\ \E s \in {"lap", "sbt", "libnao"} : pc' = s
  /\ UNCHANGED <<heap, ao, in0, ao_pot, sbt, dr, vff, ffrr3, sp, mu, ir, irp,
                 results, retvals, calls, arg, raised>>

\* the loop over (sp, mu) moves to the next multiplet, or leaves to pc "out"
NextMult(in, out) ==
  IF mu < NMult(heap', sp) THEN mu' = mu + 1 /\ sp' = sp /\ pc' = in
  ELSE IF sp < NSpecies(heap') THEN mu' = 1 /\ sp' = sp + 1 /\ pc' = in
  ELSE mu' = 0 /\ sp' = 0 /\ pc' = out

\* for sp in range(ao.nspecies): ao_pot.sp_mu2rcut[sp].fill(rc)
RECURSIVE FillMu2rcut(_, _, _, _)
FillMu2rcut(h, o, rc, n) ==
  IF n = 0 THEN h
  ELSE LET g == FillMu2rcut(h, o, rc, n - 1)
           a == g[o.sp_mu2rcut][n]
       IN [g EXCEPT ![a] = [m \in DOMAIN g[a] |-> rc]]

\* (variant: the cutoff taken at the inner end of the grid, ao.rr[0])
RcutInner(rr) == rr[1]

\* the cutoff the potentials get: ao.rr[-1]
RcutOut(rr) == Last(rr)

\* (variant: a third fill, on the grid of the output)
FillCutoffsAndGrid(h, o) ==
  LET g == FillMu2rcut(h, o, RcutOut(h[ao.rr]), ao.nspecies)
      g1 == [g EXCEPT ![o.sp2rcut] = [s \in DOMAIN g[o.sp2rcut] |-> RcutOut(g[ao.rr])]]
  IN [g1 EXCEPT ![o.rr] = [i \in DOMAIN g1[o.rr] |-> RcutOut(g1[ao.rr])]]

\* the two cutoff fills that end every solver
FillCutoffs(h, o) ==
  LET g == FillMu2rcut(h, o, RcutOut(h[ao.rr]), ao.nspecies)
  IN [g EXCEPT ![o.sp2rcut] = [s \in DOMAIN g[o.sp2rcut] |-> RcutOut(g[ao.rr])]]

\* return ao_pot, from solver s; retvals records what the caller received
Return(s) ==
  /\ results' = Append(results, ao_pot[1])
  /\ retvals' = Append(retvals, [by |-> s, val |-> DeepValue(heap', ao_pot[1])])
  /\ Idle1 /\ pc' = "done"

----------------------------------------------------------------------------
(* ao_log_hartree_lap *)

Zero == Real(RatInt(0))

\* (variant: the accumulator is not cleared between multiplets)
VffKeep(v) == v

\* vff.fill(0.0)
VffFill(v) == [i \in DOMAIN v |-> Zero]

\* ff*ao.rr**3
Ffrr3(ff, rr) == [i \in DOMAIN rr |-> RealScale(ff[i], RatInt(Pow(rr[i], 3)))]

\* (variant: the diagonal pair ir = irp is left out of the sum)
LapTermOffDiagonal(rr, am, f3, i, ip) ==
  IF i = ip THEN Real(RatInt(0))
  ELSE RealScale(f3[ip], Rat(Pow(Min(rr[i], rr[ip]), am), Pow(Max(rr[i], rr[ip]), am + 1)))

\* (variant: f*r^3 taken at the larger of the two radii)
LapTermAtLarger(rr, am, f3, i, ip) ==
  RealScale(f3[IF rr[ip] >= rr[i] THEN ip ELSE i],
            Rat(Pow(Min(rr[i], rr[ip]), am), Pow(Max(rr[i], rr[ip]), am + 1)))

\* rrl/rrg * ffrr3[irp] for the pair (i, ip)
LapTerm(rr, am, f3, i, ip) ==
  LET rrl == Pow(Min(rr[i], rr[ip]), am)
      rrg == Pow(Max(rr[i], rr[ip]), am + 1)
  IN RealScale(f3[ip], Rat(rrl, rrg))

\* (4*np.pi*dr)/(2*am+1.0) * vff
LapScale(d, am, v) ==
  LET c == RealDivRat(RealMul(RealScale(Pi, RatInt(4)), d), RatInt(2 * am + 1))
  IN [i \in DOMAIN v |-> RealMul(c, v[i])]

\* (variant: the rescaled form is taken from the row as it was before the
\* potential was written)
StoreRowsStale(h, o, s, m, row) ==
  LET am == h[h[ao.sp_mu2j][s]][m]
      rl == Rescaled(h[h[o.psi_log][s]][m], h[ao.rr], am)
      h1 == [h EXCEPT ![h[o.psi_log][s]][m] = row]
  IN [h1 EXCEPT ![h1[o.psi_log_rl][s]][m] = rl]

\* ao_pot.psi_log[sp][mu,:] = row, then
\* ao_pot.psi_log_rl[sp][mu,:] = ao_pot.psi_log[sp][mu,:]/(ao.rr**am)
StoreRows(h, o, s, m, row) ==
  LET h1 == [h EXCEPT ![h[o.psi_log][s]][m] = row]
      am == h1[h1[ao.sp_mu2j][s]][m]
      rl == Rescaled(h1[h1[o.psi_log][s]][m], h1[ao.rr], am)
  IN [h1 EXCEPT ![h1[o.psi_log_rl][s]][m] = rl]

\* lines 104-106: the copy, dr and the accumulator
LapEnter ==
  /\ pc = "lap"
  /\ LET c == DeepCopy(heap, ao)
     IN heap' = c.heap /\ ao_pot' = <<c.obj>>
  /\ dr' = <<Log(Rat(Rr[2], Rr[1]))>>
  /\ vff' = [i \in 1..ao.nr |-> Zero]
  /\ sp' = 1 /\ mu' = 1 /\ pc' = "lap_loop"
  /\ calls' = [calls EXCEPT !.lap = @ + 1]
  /\ UNCHANGED <<ao, in0, sbt, ffrr3, ir, irp, results, retvals, arg, raised>>

\* lines 108-110: the next multiplet, its ffrr3, the accumulator cleared
LapBegin ==
  /\ pc = "lap_loop"
  /\ ffrr3' = Ffrr3(Ff(heap, sp, mu), Rr)
  /\ vff' = VffFill(vff)
  /\ ir' = 1 /\ irp' = 1 /\ pc' = "lap_acc"
  /\ UNCHANGED <<heap, ao, in0, ao_pot, sbt, dr, sp, mu, results, retvals, calls, arg, raised>>

\* lines 111-115: one pass of the inner loop body
LapAccum ==
  /\ pc = "lap_acc"
  /\ vff' = [vff EXCEPT ![ir] = RealAdd(@, LapTerm(Rr, Am(heap, sp, mu), ffrr3, ir, irp))]
  /\ IF irp < ao.nr THEN irp' = irp + 1 /\ ir' = ir /\ pc' = pc
     ELSE IF ir < ao.nr THEN irp' = 1 /\ ir' = ir + 1 /\ pc' = pc
     ELSE irp' = 0 /\ ir' = 0 /\ pc' = "lap_store"
  /\ UNCHANGED <<heap, ao, in0, ao_pot, sbt, dr, ffrr3, sp, mu, results, retvals, calls, arg, raised>>

\* lines 117-118: the potential and its rescaled form are stored
LapStore ==
  /\ pc = "lap_store"
  /\ heap' = StoreRows(heap, ao_pot[1], sp, mu, LapScale(dr[1], Am(heap, sp, mu), vff))
  /\ NextMult("lap_loop", "lap_cut")
  /\ UNCHANGED <<ao, in0, ao_pot, sbt, dr, vff, ffrr3, ir, irp, results, retvals, calls, arg, raised>>

\* lines 120-123: the cutoffs are reset and ao_pot is returned
LapFinish ==
  /\ pc = "lap_cut"
  /\ heap' = FillCutoffs(heap, ao_pot[1])
  /\ Return("lap")
  /\ UNCHANGED <<ao, in0, calls, arg, raised>>

Lap == LapEnter \/ LapBegin \/ LapAccum \/ LapStore \/ LapFinish

----------------------------------------------------------------------------
(* ao_log_hartree_sbt *)

\* sbt_c(rr, pp, lmax): the transform engine of pyscf.nao.m_sbt
SbtC(rr, pp, lmax) == [rr |-> rr, pp |-> pp, lmax |-> lmax]

\* sbt.sbt(ff, am, direction): the transform of order am of ff, forward
\* (direction 1) or inverse (-1), kept as an uninterpreted value per point
SbtSbt(e, ff, am, direction) ==
  [i \in DOMAIN ff |->
     [q |-> RatInt(1), pi |-> 0, lg |-> <<>>,
      sym |-> <<[arg |-> ff, am |-> am, direction |-> direction, i |-> i]>>]]

\* (4*np.pi) * sbt.sbt( sbt.sbt( ff, am, 1)/ao.pp**2, am, -1)
SbtHartree(e, ff, am, pp) ==
  LET t == SbtSbt(e, ff, am, 1)
      w == [i \in DOMAIN t |-> RealDivRat(t[i], RatInt(Pow(pp[i], 2)))]
      v == SbtSbt(e, w, am, -1)
  IN [i \in DOMAIN v |-> RealMul(RealScale(Pi, RatInt(4)), v[i])]

\* lines 80-82: the engine and the copy
SbtEnter ==
  /\ pc = "sbt"
  /\ sbt' = <<SbtC(Rr, heap[ao.pp], ao.jmx)>>
  /\ LET c == DeepCopy(heap, ao)
     IN heap' = c.heap /\ ao_pot' = <<c.obj>>
  /\ sp' = 1 /\ mu' = 1 /\ pc' = "sbt_loop"
  /\ calls' = [calls EXCEPT !.sbt = @ + 1]
  /\ UNCHANGED <<ao, in0, dr, vff, ffrr3, ir, irp, results, retvals, arg, raised>>

\* lines 84-86: the potential of one multiplet and its rescaled form
SbtStep ==
  /\ pc = "sbt_loop"
  /\ heap' = StoreRows(heap, ao_pot[1], sp, mu,
                       SbtHartree(sbt[1], Ff(heap, sp, mu), Am(heap, sp, mu), heap[ao.pp]))
  /\ NextMult("sbt_loop", "sbt_cut")
  /\ UNCHANGED <<ao, in0, ao_pot, sbt, dr, vff, ffrr3, ir, irp, results, retvals, calls, arg, raised>>

\* lines 88-91: the cutoffs are reset and ao_pot is returned
SbtFinish ==
  /\ pc = "sbt_cut"
  /\ heap' = FillCutoffs(heap, ao_pot[1])
  /\ Return("sbt")
  /\ UNCHANGED <<ao, in0, calls, arg, raised>>

Sbt == SbtEnter \/ SbtStep \/ SbtFinish

----------------------------------------------------------------------------
(* ao_log_hartree_lap_libnao *)

\* ao_log(ao_log=ao): the copying constructor of pyscf.nao.ao_log
AoLogCopy(h, o) == DeepCopy(h, o)

\* libnao.ao_hartree_lap(rr, nmult, mu2ff, nr, mu2j, mu2vh): the Fortran
\* quadrature; mu2vh(:,mu) is the Laplace-expansion potential of mu2ff(:,mu)
AoHartreeLap(rr, nmult, mu2ff, nr, mu2j) ==
  LET c(m) == RealDivRat(RealMul(RealScale(Pi, RatInt(4)), Log(Rat(rr[2], rr[1]))),
                         RatInt(2 * mu2j[m] + 1))
      k(m, i, ip) ==
        RealScale(mu2ff[m][ip],
                  Rat(Pow(Min(rr[i], rr[ip]), mu2j[m]) * Pow(rr[ip], 3),
                      Pow(Max(rr[i], rr[ip]), mu2j[m] + 1)))
      RECURSIVE S(_, _, _)
      S(m, i, n) == IF n = 0 THEN Zero ELSE RealAdd(S(m, i, n - 1), k(m, i, n))
  IN [m \in 1..nmult |-> [i \in 1..nr |-> RealMul(c(m), S(m, i, nr))]]

\* ao_pot.psi_log_rl[sp][mu,:] = ao_pot.psi_log[sp][mu,:]/(ao.rr**am) for
\* every mu of enumerate(ao.sp_mu2j[sp])
RECURSIVE RescaleRows(_, _, _, _)
RescaleRows(h, o, s, n) ==
  IF n = 0 THEN h
  ELSE LET g == RescaleRows(h, o, s, n - 1)
           am == g[g[ao.sp_mu2j][s]][n]
       IN [g EXCEPT ![g[o.psi_log_rl][s]][n] = Rescaled(g[g[o.psi_log][s]][n], g[ao.rr], am)]

\* lines 44-46: the copy
NaoEnter ==
  /\ pc = "libnao"
  /\ LET c == AoLogCopy(heap, ao)
     IN heap' = c.heap /\ ao_pot' = <<c.obj>>
  /\ sp' = 1 /\ mu' = 0 /\ pc' = "nao_loop"
  /\ calls' = [calls EXCEPT !.libnao = @ + 1]
  /\ UNCHANGED <<ao, in0, sbt, dr, vff, ffrr3, ir, irp, results, retvals, arg, raised>>

\* lines 48-62, one species: np.require hands back ao_pot.psi_log[sp] itself
\* or, when its dtype or layout does not fit, a fresh array (converted); the
\* library fills it, it becomes ao_pot.psi_log[sp], and the rescaled rows follow
NaoSpecies ==
  /\ pc = "nao_loop"
  /\ \E converted \in BOOLEAN :
       LET o == ao_pot[1]
           a == heap[o.psi_log][sp]
           h0 == IF converted THEN Append(heap, heap[a]) ELSE heap
           ff_pot == IF converted THEN Len(h0) ELSE a
           vh == AoHartreeLap(Rr, ao.sp2nmult[sp], heap[heap[ao.psi_log][sp]], ao.nr,
                              heap[heap[ao.sp_mu2j][sp]])
           h1 == [h0 EXCEPT ![ff_pot] = vh]
           h2 == [h1 EXCEPT ![o.psi_log][sp] = ff_pot]
       IN heap' = RescaleRows(h2, o, sp, Len(h2[h2[ao.sp_mu2j][sp]]))
  /\ IF sp < ao.nspecies THEN sp' = sp + 1 /\ pc' = pc ELSE sp' = 0 /\ pc' = "nao_cut"
  /\ UNCHANGED <<ao, in0, ao_pot, sbt, dr, vff, ffrr3, mu, ir, irp, results, retvals, calls, arg, raised>>

\* lines 64-67: the cutoffs are reset and ao_pot is returned
NaoFinish ==
  /\ pc = "nao_cut"
  /\ heap' = FillCutoffs(heap, ao_pot[1])
  /\ Return("libnao")
  /\ UNCHANGED <<ao, in0, calls, arg, raised>>

Libnao == NaoEnter \/ NaoSpecies \/ NaoFinish

----------------------------------------------------------------------------
(* ao_log_hartree: the dispatcher *)

\* the lower-case letters of the checked method names and their upper case
Lower == <<"l", "a", "p", "s", "b", "t", "x", "y", "z", "c", "e">>

Upper == <<"L", "A", "P", "S", "B", "T", "X", "Y", "Z", "C", "E">>

\* the characters the method names are enumerated over: the letters of
\* 'lap' and 'sbt' in both cases, another letter in both cases and a blank
Alphabet ==
  {"l", "a", "p", "s", "b", "t", "x", "L", "A", "P", "S", "B", "T", "X", " "}

\* str.upper() of one character
CharUpper(c) ==
  IF \E k \in DOMAIN Lower : Lower[k] = c
  THEN Upper[CHOOSE k \in DOMAIN Lower : Lower[k] = c]
  ELSE c

\* str.upper()
StrUpper(m) == [i \in DOMAIN m |-> CharUpper(m[i])]

\* the default of the parameter ao_log_hartree_method
DefaultMethod == <<"l", "a", "p">>

\* (variant: the method name compared as given, without upper())
SelectCaseSensitive(m) ==
  IF m = <<"l", "a", "p">> THEN "libnao"
  ELSE IF m = <<"s", "b", "t">> THEN "sbt"
  ELSE "raised"

\* (variant: an unknown method name falls back to the default solver)
SelectFallback(m) ==
  IF StrUpper(m) = <<"S", "B", "T">> THEN "sbt" ELSE "libnao"

\* lines 129-131: the solver the method name selects, or "raised"
Select(m) ==
  IF StrUpper(m) = <<"L", "A", "P">> THEN "libnao"
  ELSE IF StrUpper(m) = <<"S", "B", "T">> THEN "sbt"
  ELSE "raised"

\* ao_log_hartree(ao, ao_log_hartree_method): arg is <<>> when the caller
\* omits the method
Dispatch ==
  /\ pc = "dispatch"
  /\ LET ao_log_hartree_method == IF arg = <<>> THEN DefaultMethod ELSE arg[1]
     IN /\ pc' = Select(ao_log_hartree_method)
        /\ raised' = (pc' = "raised")
  /\ UNCHANGED <<heap, ao, in0, ao_pot, sbt, dr, vff, ffrr3, sp, mu, ir, irp,
                 results, retvals, calls, arg>>

----------------------------------------------------------------------------
(* Specifications *)

\* one solver call on any well-formed input
Next == Invoke \/ Lap \/ Sbt \/ Libnao

Spec == Init /\ [][Next]_vars

\* successive solver calls on the same input (two-point grids from 1)
InitRepeat == /\ \E x \in UNION {InputsOf(2, sh, {1}) : sh \in Shapes} : Start(x)
              /\ pc = "idle" /\ arg = <<>>

\* the caller keeps the returned potentials and calls again
Again ==
  /\ pc = "done" /\ Len(results) < MaxCalls
  /\ pc' = "idle"
  /\ UNCHANGED <<heap, ao, in0, ao_pot, sbt, dr, vff, ffrr3, sp, mu, ir, irp,
                 results, retvals, calls, arg, raised>>

NextRepeat == Next \/ Again

SpecRepeat == InitRepeat /\ [][NextRepeat]_vars

\* the method names of at most n characters
Names(n) == UNION {[1..k -> Alphabet] : k \in 0..n}

\* longer method names: 'laplace', 'sbt ', 'LAPS', 'xyz' with a blank
LongNames ==
  {<<"l", "a", "p", "l", "a", "c", "e">>, <<"s", "b", "t", " ">>,
   <<"L", "A", "P", "S">>, <<" ", "x", "y", "z">>}

\* the orbital set of the end-to-end scenario: rr = [1, 2, 4, 8], one species,
\* one multiplet with j = 0 and f = [1, 1, 1, 1]
Scenario ==
  MkAo(LogGrid(1, 4), LogGrid(3, 4), <<<<0>>>>, <<<<[i \in 1..4 |-> 1]>>>>, 4)

\* calls of the dispatcher with any method name, or none, on the scenario
InitDispatch ==
  /\ Start(Scenario)
  /\ pc = "dispatch"
  /\ arg \in {<<>>} \cup {<<m>> : m \in Names(MaxLen) \cup LongNames \cup {<<"x", "y", "z">>}}

NextDispatch == Dispatch \/ Sbt \/ Libnao

SpecDispatch == InitDispatch /\ [][NextDispatch]_vars

----------------------------------------------------------------------------
(* Properties *)

\* the potential set the last call returned, by value
OutVal == DeepValue(heap, Last(results))

\* the solver that returned it
OutBy == Last(retvals).by

\* the (species, multiplet) pairs of the input
Mults == {<<s, m>> \in (1..in0.nspecies) \X (1..Len(in0.rr) + 2) : m <= in0.sp2nmult[s]}

\* the unnormalised quadrature sum of the claim C7: the sum over all grid
\* points ip of min(r,r')^j / max(r,r')^(j+1) * f(r') * r'^3, as a fraction
QuadSum(rr, f, j, i) ==
  LET RECURSIVE S(_)
      S(k) == IF k = 0 THEN RatInt(0)
              ELSE RatAdd(S(k - 1),
                          Rat(Pow(Min(rr[i], rr[k]), j) * f[k].q[1] * Pow(rr[k], 3),
                              Pow(Max(rr[i], rr[k]), j + 1) * f[k].q[2]))
  IN S(Len(rr))

\* (4*pi*dr)/(2j+1) * S with dr = log(rr[1]/rr[0])
QuadV(rr, f, j, i) ==
  LET S == QuadSum(rr, f, j, i)
  IN [q |-> Rat(4 * S[1], (2 * j + 1) * S[2]), pi |-> 1,
      lg |-> <<Rat(rr[2], rr[1])>>, sym |-> <<>>]

\* the effective method name of a dispatcher call
Method == IF arg = <<>> THEN <<"l", "a", "p">> ELSE arg[1]

\* the letter-casings of 'lap' and of 'sbt'
LapCasings == {<<a, b, c>> : a \in {"l", "L"}, b \in {"a", "A"}, c \in {"p", "P"}}

SbtCasings == {<<a, b, c>> : a \in {"s", "S"}, b \in {"b", "B"}, c \in {"t", "T"}}

\* the dispatcher has handed control to solver s, which ran at most once
\* and, once the call is over, exactly once and returned the result
OnlySolver(s) ==
  /\ ~raised /\ pc # "raised"
  /\ \A t \in {"lap", "sbt", "libnao"} : t # s => calls[t] = 0
  /\ pc \notin {"dispatch", s} => calls[s] = 1
  /\ pc \in {"dispatch", s} => calls[s] = 0
  /\ pc = "done" => Len(results) = 1 /\ retvals[1].by = s
  /\ pc # "done" => results = <<>>

\* C1: every letter-casing of 'lap' runs the Laplace (libnao) solver exactly
\* once and returns its result, every letter-casing of 'sbt' runs
\* ao_log_hartree_sbt exactly once and returns its result, no other solver
\* runs, and an omitted method takes the 'lap' path.
C1_Dispatch ==
  /\ Method \in LapCasings => OnlySolver("libnao")
  /\ Method \in SbtCasings => OnlySolver("sbt")
  /\ arg = <<>> => OnlySolver("libnao")

C1_Witness ==
  /\ pc = "done" /\ arg = <<<<"L", "a", "P">>>>
  /\ calls = [lap |-> 0, sbt |-> 0, libnao |-> 1] /\ Len(results) = 1

\* C2: a method name that is no letter-casing of 'lap' or 'sbt' makes
\* ao_log_hartree fail: it raises, returns no potential set, runs none of the
\* three solvers and leaves the input orbital set as it was.
C2_UnknownMethod ==
  Method \notin LapCasings \cup SbtCasings =>
    /\ pc \in {"dispatch", "raised"}
    /\ raised <=> pc = "raised"
    /\ results = <<>> /\ ao_pot = <<>>
    /\ calls = [lap |-> 0, sbt |-> 0, libnao |-> 0]
    /\ heap = Scenario.heap /\ ao = Scenario.obj /\ DeepValue(heap, ao) = in0

C2_Witness ==
  /\ pc = "raised" /\ raised /\ arg = <<<<"s", "b", "t", " ">>>> /\ calls = NoCalls

\* C3: when a solver has returned, every per-multiplet cutoff and every
\* per-species cutoff of the output equals the outermost grid radius rr[N-1],
\* whatever the input cutoffs were.
C3_CutoffsReset ==
  pc = "done" =>
    /\ Len(OutVal.sp_mu2rcut) = in0.nspecies /\ Len(OutVal.sp2rcut) = in0.nspecies
    /\ \A s \in 1..in0.nspecies :
         /\ OutVal.sp2rcut[s] = in0.rr[in0.nr]
         /\ Len(OutVal.sp_mu2rcut[s]) = in0.sp2nmult[s]
         /\ \A m \in 1..in0.sp2nmult[s] : OutVal.sp_mu2rcut[s][m] = in0.rr[in0.nr]

C3_Witness ==
  /\ pc = "done" /\ OutBy = "sbt" /\ in0.nspecies = 2
  /\ in0.sp_mu2rcut[2][1] # in0.rr[in0.nr] /\ in0.sp2rcut[1] # in0.rr[in0.nr]
  /\ OutVal.sp_mu2rcut[2][1] = in0.rr[in0.nr]

\* C4: the output of a solver has the species, the multiplets of each
\* species, the angular momentum of each multiplet and the length N of each
\* potential array of the input, and differs from the input in nothing but
\* psi_log, psi_log_rl, sp_mu2rcut and sp2rcut.
C4_ShapeAndFrame ==
  pc = "done" =>
    /\ OutVal.nspecies = in0.nspecies /\ Len(OutVal.psi_log) = in0.nspecies
    /\ Len(OutVal.psi_log_rl) = in0.nspecies /\ OutVal.sp2nmult = in0.sp2nmult
    /\ OutVal.sp_mu2j = in0.sp_mu2j
    /\ \A s \in 1..in0.nspecies :
         /\ Len(OutVal.psi_log[s]) = in0.sp2nmult[s]
         /\ Len(OutVal.psi_log_rl[s]) = in0.sp2nmult[s]
         /\ \A m \in 1..in0.sp2nmult[s] :
              /\ Len(OutVal.psi_log[s][m]) = Len(in0.psi_log[s][m])
              /\ Len(OutVal.psi_log[s][m]) = in0.nr
              /\ Len(OutVal.psi_log_rl[s][m]) = in0.nr
    /\ [OutVal EXCEPT !.psi_log = in0.psi_log, !.psi_log_rl = in0.psi_log_rl,
                      !.sp_mu2rcut = in0.sp_mu2rcut, !.sp2rcut = in0.sp2rcut] = in0

C4_Witness ==
  /\ pc = "done" /\ OutBy = "lap" /\ in0.sp2nmult = <<2>> /\ in0.sp_mu2j = <<<<0, 1>>>>
  /\ OutVal.psi_log # in0.psi_log /\ in0.nr = MaxNr

\* the objects handed back so far and the one being filled
Outputs == Range(results) \cup Range(ao_pot)

\* C5: a solver call leaves the input orbital set as it was, field by field;
\* its output shares no array or list with the input, so no write that fills
\* the output shows through the input; successive calls on the same input
\* return outputs that share nothing with each other, and a returned output
\* is never written again.
C5_InputIntactNoAlias ==
  /\ DeepValue(heap, ao) = in0
  /\ \A o \in Outputs : Reach(heap, o) \cap Reach(heap, ao) = {}
  /\ \A o1, o2 \in Outputs : o1 # o2 => Reach(heap, o1) \cap Reach(heap, o2) = {}
  /\ \A k \in DOMAIN results :
       /\ DeepValue(heap, results[k]) = retvals[k].val
       /\ \A l \in DOMAIN results : k # l => results[k] # results[l]
       /\ ao_pot # <<>> => ao_pot[1] # results[k]

C5_Witness ==
  /\ pc = "done" /\ Len(results) = 2
  /\ retvals[1].by = "lap" /\ retvals[2].by = "libnao"
  /\ retvals[1].val.psi_log # in0.psi_log /\ retvals[2].val.sp2rcut # in0.sp2rcut

\* C6: in the output of a solver, psi_log_rl[sp][mu][ir] * rr[ir]^j =
\* psi_log[sp][mu][ir] for the angular momentum j of the multiplet, that is
\* psi_log_rl = psi_log / rr^j; for j = 0 the two arrays are equal.
C6_RescaledForm ==
  pc = "done" =>
    \A sm \in Mults :
      LET j == OutVal.sp_mu2j[sm[1]][sm[2]]
          V == OutVal.psi_log[sm[1]][sm[2]]
          W == OutVal.psi_log_rl[sm[1]][sm[2]]
      IN /\ DOMAIN V = 1..in0.nr /\ DOMAIN W = 1..in0.nr
         /\ \A i \in 1..in0.nr : RealScale(W[i], RatInt(Pow(OutVal.rr[i], j))) = V[i]
         /\ j = 0 => W = V

C6_Witness ==
  /\ pc = "done" /\ OutBy = "lap" /\ in0.sp_mu2j = <<<<1>>>>
  /\ OutVal.psi_log[1][1][2].q # RatInt(0)
  /\ OutVal.psi_log_rl[1][1][2] # OutVal.psi_log[1][1][2]

\* C7: ao_log_hartree_lap stores V[ir] = (4*pi*dr)/(2j+1) * S[ir] with
\* dr = log(rr[1]/rr[0]) and S[ir] the sum over all grid indices irp,
\* irp = ir included, of min^j/max^(j+1) * f[irp] * rr[irp]^3; for
\* rr = [1,2,4,8], j = 0, f = [1,1,1,1] the sum at ir = 0 is 85.
C7_Quadrature ==
  /\ pc = "lap_store" =>
       /\ \A i \in 1..in0.nr :
            vff[i] = Real(QuadSum(in0.rr, in0.psi_log[sp][mu], in0.sp_mu2j[sp][mu], i))
       /\ (in0.rr = <<1, 2, 4, 8>> /\ in0.sp_mu2j[sp][mu] = 0
           /\ in0.psi_log[sp][mu] = [i \in 1..4 |-> Real(RatInt(1))])
          => vff[1] = Real(RatInt(85))
  /\ (pc = "done" /\ OutBy = "lap") =>
       \A sm \in Mults : \A i \in 1..in0.nr :
          OutVal.psi_log[sm[1]][sm[2]][i] =
            QuadV(in0.rr, in0.psi_log[sm[1]][sm[2]], in0.sp_mu2j[sm[1]][sm[2]], i)

C7_Witness ==
  /\ pc = "done" /\ OutBy = "lap" /\ in0.rr = <<1, 2, 4, 8>> /\ in0.sp_mu2j = <<<<0>>>>
  /\ in0.psi_log = <<<<[i \in 1..4 |-> Real(RatInt(1))]>>>>
  /\ OutVal.psi_log[1][1][1] =
       [q |-> RatInt(340), pi |-> 1, lg |-> <<RatInt(2)>>, sym |-> <<>>]

\* the term of the original C9: f and r^3 taken at the larger radius r_>
TermAtLarger(i, ip) ==
  LET rr == in0.rr
      j == in0.sp_mu2j[sp][mu]
      g == IF rr[ip] >= rr[i] THEN ip ELSE i
  IN RealScale(in0.psi_log[sp][mu][g],
               Rat(Pow(Min(rr[i], rr[ip]), j) * Pow(rr[g], 3), Pow(Max(rr[i], rr[ip]), j + 1)))

\* the term of the amended C9: f and r^3 taken at the radius of irp
TermAtIrp(i, ip) ==
  LET rr == in0.rr
      j == in0.sp_mu2j[sp][mu]
  IN RealScale(in0.psi_log[sp][mu][ip],
               Rat(Pow(Min(rr[i], rr[ip]), j) * Pow(rr[ip], 3), Pow(Max(rr[i], rr[ip]), j + 1)))

\* C9 as stated: for every ordered pair (ir, irp) the term accumulated into
\* V[ir] is r_<^j / r_>^(j+1) * f(r_>) * r_>^3, the orbital value and the
\* cubed radius taken at the larger of the two radii.
C9_Original ==
  [][pc = "lap_acc" => vff'[ir] = RealAdd(vff[ir], TermAtLarger(ir, irp))]_vars

\* C9 amended: for every ordered pair (ir, irp) the term accumulated into
\* V[ir] is r_<^j / r_>^(j+1) * f(rr[irp]) * rr[irp]^3, the orbital value and
\* the cubed radius taken at the radius of irp (which is r_> only when
\* rr[irp] >= rr[ir]); no other entry of the accumulator changes.
C9_Amended ==
  [][pc = "lap_acc" =>
       /\ vff'[ir] = RealAdd(vff[ir], TermAtIrp(ir, irp))
       /\ \A i \in DOMAIN vff : i # ir => vff'[i] = vff[i]]_vars

C9_Witness ==
  /\ pc = "lap_acc" /\ ir = 2 /\ irp = 2
  /\ in0.rr[1] < in0.rr[2] /\ in0.psi_log[sp][mu][1].q # RatInt(0)
  /\ vff[2] = TermAtIrp(2, 1) /\ vff[2] # TermAtLarger(2, 1)

\* the multiplets ao_log_hartree_lap has already stored
Stored ==
  {sm \in Mults : \/ pc = "lap_cut"
                  \/ sm[1] < sp
                  \/ sm[1] = sp /\ sm[2] < mu}

\* C10: the one accumulator vff serves every multiplet, yet it is all zeros
\* when the double loop of a multiplet starts, and a potential already stored
\* in the output stays what its own f, j and the grid make it while later
\* multiplets are processed; two multiplets of equal f and j get equal
\* potentials wherever they stand.
C10_AccumulatorReuse ==
  /\ (pc = "lap_acc" /\ ir = 1 /\ irp = 1) =>
       \A i \in DOMAIN vff : vff[i] = Real(RatInt(0))
  /\ pc \in {"lap_loop", "lap_acc", "lap_store", "lap_cut"} =>
       \A sm \in Stored : \A i \in 1..in0.nr :
          heap[heap[ao_pot[1].psi_log][sm[1]]][sm[2]][i] =
            QuadV(in0.rr, in0.psi_log[sm[1]][sm[2]], in0.sp_mu2j[sm[1]][sm[2]], i)
  /\ (pc = "done" /\ OutBy = "lap") =>
       \A a, b \in Mults :
          (in0.psi_log[a[1]][a[2]] = in0.psi_log[b[1]][b[2]]
             /\ in0.sp_mu2j[a[1]][a[2]] = in0.sp_mu2j[b[1]][b[2]])
          => OutVal.psi_log[a[1]][a[2]] = OutVal.psi_log[b[1]][b[2]]

C10_Witness ==
  /\ pc = "lap_acc" /\ ir = 1 /\ irp = 1 /\ sp = 1 /\ mu = 2
  /\ heap[heap[ao_pot[1].psi_log][1]][1][1].q # RatInt(0)
  /\ in0.psi_log[1][1] # in0.psi_log[1][2]

====
